---- MODULE Spec2Model ----
(***************************************************************************)
(* busmap-front: the view controller (AppComponent, listed in              *)
(* COMO_EXECUTAR.md) and the API client (SptransService, app.service.ts).  *)
(* The browser runs every callback to completion on one thread, so each    *)
(* handler is one atomic action; HTTP responses arrive in any order.       *)
(***************************************************************************)
EXTENDS Integers, Sequences, FiniteSets, TLC

\* ---------------------------------------------------------------- bounds
MaxBuscas == 2      \* accepted searches per run
MaxLinhas == 3      \* lines in one line-search response
MaxPedidos == 3     \* position requests dispatched per run, all searches together
MaxVs == 1          \* vehicles in one position response
MaxLinhasApi == 2   \* lines in the response of a direct call of the API client

\* ---------------------------------------------------------------- values
Range(s) == {s[i] : i \in 1..Len(s)}

SeqsUpTo(S, n) == UNION {[1..k -> S] : k \in 0..n}

\* Search terms typed by the user: strings over a blank and a letter.
Termos == {<<>>, <<" ">>, <<"a">>, <<" ", "a", " ">>}

RECURSIVE trimStart(_)
trimStart(s) == IF s # <<>> /\ Head(s) = " " THEN trimStart(Tail(s)) ELSE s

RECURSIVE trimEnd(_)
trimEnd(s) ==
    IF s # <<>> /\ s[Len(s)] = " " THEN trimEnd(SubSeq(s, 1, Len(s) - 1)) ELSE s

\* String.prototype.trim
trim(s) == trimEnd(trimStart(s))

\* Coordinates as the feed sends them: strings over digits and a letter.
Digitos == {"1", "2"}

valorDigito(c) == IF c = "1" THEN 1 ELSE 2

RECURSIVE prefixoNumerico(_)
prefixoNumerico(s) ==
    IF s = <<>> \/ Head(s) \notin Digitos
    THEN <<>>
    ELSE <<Head(s)>> \o prefixoNumerico(Tail(s))

RECURSIVE decimal(_)
decimal(s) ==
    IF s = <<>> THEN 0
    ELSE decimal(SubSeq(s, 1, Len(s) - 1)) * 10 + valorDigito(s[Len(s)])

\* parseFloat: the number spelled by the longest numeric prefix, NaN if none.
parseFloat(s) ==
    IF prefixoNumerico(s) = <<>>
    THEN [nan |-> TRUE, val |-> 0]
    ELSE [nan |-> FALSE, val |-> decimal(prefixoNumerico(s))]

isNaN(x) == x.nan

\* A line of the search response; 0 stands for an absent (falsy) field.
SemCodigo == [cl |-> 0, c |-> 0, codigo |-> 0, codigoLinha |-> 0]

\* Lines the view controller's searches receive.
LinhaSet == { SemCodigo, [cl |-> 0, c |-> 22, codigo |-> 0, codigoLinha |-> 33] }

\* Lines the direct calls of the API client receive.
LinhaSetApi ==
    { SemCodigo,
      [cl |-> 11, c |-> 22, codigo |-> 0, codigoLinha |-> 0],
      [cl |-> 0, c |-> 22, codigo |-> 44, codigoLinha |-> 0],
      [cl |-> 0, c |-> 0, codigo |-> 44, codigoLinha |-> 33],
      [cl |-> 0, c |-> 0, codigo |-> 0, codigoLinha |-> 33] }

\* linha.cl || linha.c || linha.codigo || linha.codigoLinha
codigoLinhaDe(linha) ==
    IF linha.cl # 0 THEN linha.cl
    ELSE IF linha.c # 0 THEN linha.c
    ELSE IF linha.codigo # 0 THEN linha.codigo
    ELSE linha.codigoLinha

\* A vehicle of the position response.
VeiculoSet ==
    { [py |-> <<"1", "x">>, px |-> <<"2">>],
      [py |-> <<"x">>, px |-> <<"2">>],
      [py |-> <<"1">>, px |-> <<>>] }

\* Bodies of a line-search response: null, a non-array object, or an array.
CorpoLinhas(LS, n) ==
    { [tipo |-> "null", itens |-> <<>>], [tipo |-> "objeto", itens |-> <<>>] }
    \cup { [tipo |-> "array", itens |-> l] : l \in SeqsUpTo(LS, n) }

\* Bodies of a position response: {hr, vs} with vs an array or absent.
CorpoPosicoes ==
    { [hr |-> "10:00", vsArray |-> FALSE, vs |-> <<>>] }
    \cup { [hr |-> "10:00", vsArray |-> TRUE, vs |-> v] : v \in SeqsUpTo(VeiculoSet, MaxVs) }

StatusFalha == {0, 404, 500, 503}

\* What HttpClient.get delivers: a body, or a failure with its status.
HttpLinhasDe(LS, n) ==
    { [ok |-> TRUE, status |-> 200, body |-> b] : b \in CorpoLinhas(LS, n) }
    \cup { [ok |-> FALSE, status |-> st, body |-> [tipo |-> "null", itens |-> <<>>]] :
             st \in StatusFalha }

HttpLinhas == HttpLinhasDe(LinhaSet, MaxLinhas)

HttpPosicoes ==
    { [ok |-> TRUE, status |-> 200, body |-> b] : b \in CorpoPosicoes }
    \cup { [ok |-> FALSE, status |-> st,
            body |-> [hr |-> "", vsArray |-> FALSE, vs |-> <<>>]] : st \in StatusFalha }

\* ------------------------------------------------- API client (pipes)
\* What a subscriber of the returned observable receives for one HTTP
\* outcome: a value through next, or an error.
\* buscarLinhas without its catchError: the HTTP error reaches the subscriber
Svc_buscarLinhasSemCatch(http) ==
    IF http.ok
    THEN [kind |-> "next", value |-> http.body, status |-> http.status]
    ELSE [kind |-> "error", value |-> http.body, status |-> http.status]

Svc_buscarLinhas(http) ==
    IF http.ok
    THEN [kind |-> "next", value |-> http.body, status |-> http.status]
    ELSE [kind |-> "next", value |-> [tipo |-> "array", itens |-> <<>>],
          status |-> http.status]

\* buscarPosicoes without its catchError
Svc_buscarPosicoesSemCatch(http) ==
    IF http.ok
    THEN [kind |-> "next", value |-> http.body, status |-> http.status]
    ELSE [kind |-> "error", value |-> http.body, status |-> http.status]

Svc_buscarPosicoes(http) ==
    IF http.ok
    THEN [kind |-> "next", value |-> http.body, status |-> http.status]
    ELSE [kind |-> "next", value |-> [hr |-> "", vsArray |-> TRUE, vs |-> <<>>],
          status |-> http.status]

Svc_login(http) ==
    IF http.ok
    THEN [kind |-> "next", value |-> http.body, status |-> http.status]
    ELSE [kind |-> "next", value |-> FALSE, status |-> http.status]

Svc_verificarStatus(http) ==
    IF http.ok
    THEN [kind |-> "next", value |-> http.body, status |-> http.status]
    ELSE [kind |-> "next", value |-> [autenticado |-> FALSE, erro |-> TRUE],
          status |-> http.status]

HttpLogin ==
    { [ok |-> TRUE, status |-> 200, body |-> b] : b \in BOOLEAN }
    \cup { [ok |-> FALSE, status |-> st, body |-> FALSE] : st \in StatusFalha }

HttpStatus ==
    { [ok |-> TRUE, status |-> 200, body |-> [autenticado |-> b, erro |-> FALSE]] :
        b \in BOOLEAN }
    \cup { [ok |-> FALSE, status |-> st, body |-> [autenticado |-> FALSE, erro |-> FALSE]] :
             st \in StatusFalha }

\* The entry linhas.map builds for one line in buscarTodasPosicoes: an
\* observable, which nothing subscribes to; of(...) for a line without a
\* code, the buscarPosicoes pipe (no request sent yet) for the others.
entradaDe(linha) ==
    IF codigoLinhaDe(linha) = 0
    THEN [tipo |-> "observable", fonte |-> "of", linha |-> linha,
          codigo |-> 0, hr |-> "", vs |-> <<>>]
    ELSE [tipo |-> "observable", fonte |-> "buscarPosicoes", linha |-> linha,
          codigo |-> codigoLinhaDe(linha), hr |-> "", vs |-> <<>>]

\* buscarTodasPosicoes, from what its buscarLinhas emits: switchMap, then
\* catchError. A non-array body makes linhas.map throw, which catchError
\* turns into [].
Svc_buscarTodasPosicoes(em) ==
    IF em.kind # "next" \/ em.value.tipo # "array" \/ Len(em.value.itens) = 0
    THEN [kind |-> "next", value |-> <<>>, status |-> em.status]
    ELSE [kind |-> "next",
          value |-> [i \in 1..Len(em.value.itens) |-> entradaDe(em.value.itens[i])],
          status |-> em.status]

\* buscarPosicoesInteligente that goes on with the last line returned
Svc_buscarPosicoesInteligenteUltima(em) ==
    IF em.kind # "next" \/ em.value.tipo # "array" \/ Len(em.value.itens) = 0
    THEN [kind |-> "error", codigo |-> 0, linha |-> SemCodigo]
    ELSE IF codigoLinhaDe(em.value.itens[Len(em.value.itens)]) = 0
    THEN [kind |-> "error", codigo |-> 0, linha |-> em.value.itens[Len(em.value.itens)]]
    ELSE [kind |-> "pedido", codigo |-> codigoLinhaDe(em.value.itens[Len(em.value.itens)]),
          linha |-> em.value.itens[Len(em.value.itens)]]

\* buscarPosicoesInteligente, from what its buscarLinhas emits: an error
\* (rethrown by catchError) or the position request switchMap goes on with.
Svc_buscarPosicoesInteligente(em) ==
    IF em.kind # "next" \/ em.value.tipo # "array" \/ Len(em.value.itens) = 0
    THEN [kind |-> "error", codigo |-> 0, linha |-> SemCodigo]
    ELSE IF codigoLinhaDe(em.value.itens[1]) = 0
    THEN [kind |-> "error", codigo |-> 0, linha |-> em.value.itens[1]]
    ELSE [kind |-> "pedido", codigo |-> codigoLinhaDe(em.value.itens[1]),
          linha |-> em.value.itens[1]]

\* map(posicoes => ({linha, posicoes})) on the position pipe
Svc_inteligenteMap(linha, em) ==
    IF em.kind = "next"
    THEN [kind |-> "next", value |-> [linha |-> linha, posicoes |-> em.value],
          status |-> em.status]
    ELSE [kind |-> "error", value |-> [linha |-> linha, posicoes |-> em.value],
          status |-> em.status]

\* ------------------------------------------------- view controller state
VARIABLES
    isBrowser,          \* isPlatformBrowser(platformId)
    ciclo,              \* lifecycle position: construido / onInit / afterViewInit
    importacao,         \* import('leaflet'): nao / pendente / ok / falhou
    timer,              \* setTimeout of ngAfterViewInit: nao / armado / disparado
    L,                  \* this.L is set
    mapa,               \* this.mapa is set
    mapaCarregado,
    carregando,
    totalBuscas,
    ultimoErro,
    marcadoresOnibus,   \* the marker list
    camadas,            \* markers on the map (the overlay set of this.mapa)
    vista,              \* markers the viewport was last fitted to ({} = centroSP)
    reqLinhas,          \* line-search requests in flight (by search)
    reqPosicoes,        \* position requests in flight
    fecho,              \* locals of each processarLinhas call, shared by its callbacks
    hist,               \* per search: what it did so far
    ev,                 \* the last step taken
    api                 \* a direct call of the API client and what it did

vars ==
    << api, isBrowser, ciclo, importacao, timer, L, mapa, mapaCarregado, carregando,
       totalBuscas, ultimoErro, marcadoresOnibus, camadas, vista, reqLinhas,
       reqPosicoes, fecho, hist, ev >>

Buscas == 1..MaxBuscas

\* The fields the handlers read and write, as one record.
Comp ==
    [ L |-> L, mapa |-> mapa, mapaCarregado |-> mapaCarregado,
      carregando |-> carregando, totalBuscas |-> totalBuscas,
      ultimoErro |-> ultimoErro, marcadoresOnibus |-> marcadoresOnibus,
      camadas |-> camadas, vista |-> vista, alerta |-> "" ]

Aplica(c) ==
    /\ L' = c.L
    /\ mapa' = c.mapa
    /\ mapaCarregado' = c.mapaCarregado
    /\ carregando' = c.carregando
    /\ totalBuscas' = c.totalBuscas
    /\ ultimoErro' = c.ultimoErro
    /\ marcadoresOnibus' = c.marcadoresOnibus
    /\ camadas' = c.camadas
    /\ vista' = c.vista

FechoVazio == [totalLinhas |-> 0, linhasProcessadas |-> 0, totalOnibus |-> 0]

HistVazio ==
    [ fase |-> "nova", removidos |-> 0, falhaLinhas |-> FALSE, nLinhas |-> 0,
      comCodigo |-> 0, despachadas |-> 0, resolvidas |-> 0, falhas |-> 0,
      veiculos |-> 0, validos |-> 0, adicionados |-> 0, resumos |-> <<>>,
      errosCb |-> 0, sobreposta |-> FALSE ]

\* Vehicles of a position response whose two coordinates spell a number.
Validos(vs) ==
    Cardinality({ i \in 1..Len(vs) :
                    prefixoNumerico(vs[i].py) # <<>> /\ prefixoNumerico(vs[i].px) # <<>> })

RECURSIVE Soma(_, _)
Soma(f, S) ==
    IF S = {} THEN 0 ELSE LET x == CHOOSE y \in S : TRUE IN f[x] + Soma(f, S \ {x})

\* position requests dispatched so far, all searches together
Despachadas == Soma([s \in Buscas |-> hist[s].despachadas], Buscas)

\* position requests of search s still in flight
EmVoo(s) == Cardinality({ r \in reqPosicoes : r.busca = s })

\* search s has a request in flight: its callbacks can still run
Ativa(s) == s \in reqLinhas \/ EmVoo(s) > 0

\* hist after a clear of the marker list: every search it cuts into is
\* marked as overlapped
MarcaSobrepostas(h) ==
    [t \in Buscas |-> IF Ativa(t) THEN [h[t] EXCEPT !.sobreposta = TRUE] ELSE h[t]]

Evento(op, busca, linha, ok, alerta) ==
    [ op |-> op, busca |-> busca, linha |-> linha, ok |-> ok, alerta |-> alerta,
      termo |-> <<>> ]

ApiOcioso ==
    [ op |-> "nenhuma", fase |-> "ocioso", pedidos |-> <<>>, respostas |-> <<>>,
      linhas |-> <<>>, emitidos |-> <<>>, erro |-> FALSE, linha |-> SemCodigo,
      corpos |-> <<>> ]

Init ==
    /\ isBrowser \in BOOLEAN
    /\ ciclo = "construido"
    /\ importacao = "nao"
    /\ timer = "nao"
    /\ L = FALSE
    /\ mapa = FALSE
    /\ mapaCarregado = FALSE
    /\ carregando = FALSE
    /\ totalBuscas = 0
    /\ ultimoErro = ""
    /\ marcadoresOnibus = <<>>
    /\ camadas = {}
    /\ vista = {}
    /\ reqLinhas = {}
    /\ reqPosicoes = {}
    /\ fecho = [s \in Buscas |-> FechoVazio]
    /\ hist = [s \in Buscas |-> HistVazio]
    /\ ev = Evento("init", 0, 0, TRUE, "")
    /\ api = ApiOcioso

\* ------------------------------------------------- view controller methods
\* criarMapa; resultado is what Leaflet does: ok, L.map(...) throws, or
\* tileLayer(...).addTo(...) throws after this.mapa was assigned.
criarMapa(c, resultado) ==
    IF ~c.L THEN c
    ELSE IF resultado = "ok"
         THEN [c EXCEPT !.mapa = TRUE, !.mapaCarregado = TRUE]
    ELSE IF resultado = "falhaMap"
         THEN [c EXCEPT !.ultimoErro = "Erro ao criar mapa"]
    ELSE [c EXCEPT !.mapa = TRUE, !.ultimoErro = "Erro ao criar mapa"]

\* limparMarcadores that empties the list and leaves the layers on the map
limparMarcadoresSoLista(c) ==
    IF ~c.mapa THEN c ELSE [c EXCEPT !.marcadoresOnibus = <<>>]

limparMarcadores(c) ==
    IF ~c.mapa THEN c
    ELSE [c EXCEPT !.camadas = @ \ Range(c.marcadoresOnibus),
                   !.marcadoresOnibus = <<>>]

removerMarcadores(c) == limparMarcadores(c)

\* adicionarMarcador that puts the marker on the map and forgets to push it
adicionarMarcadorSemLista(c, onibus, id) ==
    IF ~c.L \/ ~c.mapa THEN c
    ELSE LET lat == parseFloat(onibus.py)
             lng == parseFloat(onibus.px)
         IN IF isNaN(lat) \/ isNaN(lng) THEN c
            ELSE [c EXCEPT !.camadas = @ \cup {[busca |-> id.busca, linha |-> id.linha,
                                                veiculo |-> id.veiculo,
                                                lat |-> lat.val, lng |-> lng.val]}]

\* id names the marker object created: the search, the line and the vehicle.
adicionarMarcador(c, onibus, id) ==
    IF ~c.L \/ ~c.mapa THEN c
    ELSE LET lat == parseFloat(onibus.py)
             lng == parseFloat(onibus.px)
         IN IF isNaN(lat) \/ isNaN(lng) THEN c
            ELSE LET marcador == [busca |-> id.busca, linha |-> id.linha,
                                  veiculo |-> id.veiculo,
                                  lat |-> lat.val, lng |-> lng.val]
                 IN [c EXCEPT !.camadas = @ \cup {marcador},
                              !.marcadoresOnibus = Append(@, marcador)]

\* What fitting the viewport does: not attempted, done, or an exception of
\* getBounds().pad() on the bounds of an empty group.
ajusteDe(c, totalOnibus) ==
    IF totalOnibus > 0
    THEN IF c.marcadoresOnibus = <<>> THEN "erro" ELSE "ok"
    ELSE "nao"

mostrarResultadoFinal(c, totalOnibus, linhasProcessadas) ==
    IF totalOnibus > 0
    THEN IF ajusteDe(c, totalOnibus) = "ok"
         THEN [c EXCEPT !.vista = Range(c.marcadoresOnibus), !.alerta = "encontrados"]
         ELSE c
    ELSE [c EXCEPT !.alerta = "nenhumOnibus"]

Resumo(c, totalOnibus, linhasProcessadas) ==
    [ totalOnibus |-> totalOnibus, linhas |-> linhasProcessadas,
      marcadores |-> Len(c.marcadoresOnibus), ajuste |-> ajusteDe(c, totalOnibus) ]

mostrarErro(c, status) ==
    IF status = 0 THEN [c EXCEPT !.ultimoErro = "Conexao falhou", !.alerta = "erro"]
    ELSE IF status = 404 THEN [c EXCEPT !.ultimoErro = "Endpoint 404", !.alerta = "erro"]
    ELSE IF status = 500 THEN [c EXCEPT !.ultimoErro = "Servidor 500", !.alerta = "erro"]
    ELSE [c EXCEPT !.ultimoErro = "HTTP", !.alerta = "erro"]

\* validacao that tests the term as typed, without trim
validacaoSemTrim(c, termo) ==
    IF termo = <<>> THEN "digite"
    ELSE IF ~c.mapa THEN "aguarde"
    ELSE ""

\* The two validations of buscarLinhas: the alert shown, or "" when the
\* search goes on.
validacao(c, termo) ==
    IF trim(termo) = <<>> THEN "digite"
    ELSE IF ~c.mapa THEN "aguarde"
    ELSE ""

\* pedidosDe that stops at the first line that carries a code
pedidosDeSoPrimeira(itens, busca) ==
    LET comCodigo == {j \in 1..Len(itens) : codigoLinhaDe(itens[j]) # 0}
    IN { [busca |-> busca, linha |-> i, codigo |-> codigoLinhaDe(itens[i])] :
           i \in {j \in comCodigo : \A k \in comCodigo : j <= k} }

\* The position requests the forEach of processarLinhas subscribes to: one
\* for each line that carries a code, skipping the others.
pedidosDe(itens, busca) ==
    { [busca |-> busca, linha |-> i, codigo |-> codigoLinhaDe(itens[i])] :
        i \in {j \in 1..Len(itens) : codigoLinhaDe(itens[j]) # 0} }

\* processarLinhas that clears the map when the response holds no line
processarLinhasLimpaSeVazio(c, linhas, busca) ==
    IF linhas.tipo # "array" \/ Len(linhas.itens) = 0
    THEN [c |-> [limparMarcadores(c) EXCEPT !.alerta = "nenhumaLinha"],
          fecho |-> FechoVazio, pedidos |-> {}, fase |-> "semLinhas"]
    ELSE [c |-> c,
          fecho |-> [totalLinhas |-> Len(linhas.itens), linhasProcessadas |-> 0,
                     totalOnibus |-> 0],
          pedidos |-> pedidosDe(linhas.itens, busca), fase |-> "despachada"]

\* processarLinhas: the new fields, the locals of the call and the requests.
processarLinhas(c, linhas, busca) ==
    IF linhas.tipo = "null"
    THEN [c |-> [c EXCEPT !.alerta = "dadosVazios"], fecho |-> FechoVazio,
          pedidos |-> {}, fase |-> "semLinhas"]
    ELSE IF linhas.tipo # "array"
    THEN [c |-> [c EXCEPT !.alerta = "formato"], fecho |-> FechoVazio,
          pedidos |-> {}, fase |-> "semLinhas"]
    ELSE IF Len(linhas.itens) = 0
    THEN [c |-> [c EXCEPT !.alerta = "nenhumaLinha"], fecho |-> FechoVazio,
          pedidos |-> {}, fase |-> "semLinhas"]
    ELSE [c |-> c,
          fecho |-> [totalLinhas |-> Len(linhas.itens), linhasProcessadas |-> 0,
                     totalOnibus |-> 0],
          pedidos |-> pedidosDe(linhas.itens, busca), fase |-> "despachada"]

\* posicoes.vs.forEach(onibus => adicionarMarcador(onibus, linha)), from index i
RECURSIVE paraCadaOnibus(_, _, _, _)
paraCadaOnibus(c, vs, i, req) ==
    IF i > Len(vs) THEN c
    ELSE paraCadaOnibus(
             adicionarMarcador(c, vs[i],
                 [busca |-> req.busca, linha |-> req.linha, veiculo |-> i]),
             vs, i + 1, req)

\* if (linhasProcessadas === totalLinhas) mostrarResultadoFinal(...)
seUltimaLinha(c, f) ==
    IF f.linhasProcessadas = f.totalLinhas
    THEN [c |-> mostrarResultadoFinal(c, f.totalOnibus, f.linhasProcessadas),
          f |-> f,
          resumos |-> << Resumo(c, f.totalOnibus, f.linhasProcessadas) >>]
    ELSE [c |-> c, f |-> f, resumos |-> <<>>]

\* posicoesNext with a search-generation token: a response of a superseded
\* search is dropped.
posicoesNextComGeracao(c, f, posicoes, req) ==
    IF req.busca # c.totalBuscas
    THEN [c |-> c, f |-> f, resumos |-> <<>>]
    ELSE LET f1 == [f EXCEPT !.linhasProcessadas = @ + 1]
         IN IF posicoes.vsArray /\ Len(posicoes.vs) > 0
            THEN seUltimaLinha(paraCadaOnibus(c, posicoes.vs, 1, req),
                               [f1 EXCEPT !.totalOnibus = @ + Len(posicoes.vs)])
            ELSE seUltimaLinha(c, f1)

\* posicoesNext that assigns the size of the response to totalOnibus instead
\* of adding to it
posicoesNextAtribui(c, f, posicoes, req) ==
    LET f1 == [f EXCEPT !.linhasProcessadas = @ + 1]
    IN IF posicoes.vsArray /\ Len(posicoes.vs) > 0
       THEN seUltimaLinha(paraCadaOnibus(c, posicoes.vs, 1, req),
                          [f1 EXCEPT !.totalOnibus = Len(posicoes.vs)])
       ELSE seUltimaLinha(c, f1)

\* next callback of a position subscription
posicoesNext(c, f, posicoes, req) ==
    LET f1 == [f EXCEPT !.linhasProcessadas = @ + 1]
    IN IF posicoes.vsArray /\ Len(posicoes.vs) > 0
       THEN seUltimaLinha(paraCadaOnibus(c, posicoes.vs, 1, req),
                          [f1 EXCEPT !.totalOnibus = @ + Len(posicoes.vs)])
       ELSE seUltimaLinha(c, f1)

\* error callback of a position subscription
posicoesError(c, f) ==
    seUltimaLinha(c, [f EXCEPT !.linhasProcessadas = @ + 1])

\* ------------------------------------------------- actions
NgOnInit ==
    /\ ciclo = "construido"
    /\ ciclo' = "onInit"
    /\ importacao' = IF isBrowser THEN "pendente" ELSE importacao
    /\ ev' = Evento("ngOnInit", 0, 0, isBrowser, "")
    /\ UNCHANGED << api, isBrowser, timer, L, mapa, mapaCarregado, carregando,
                    totalBuscas, ultimoErro, marcadoresOnibus, camadas, vista,
                    reqLinhas, reqPosicoes, fecho, hist >>

NgAfterViewInit ==
    /\ ciclo = "onInit"
    /\ ciclo' = "afterViewInit"
    /\ timer' = IF isBrowser THEN "armado" ELSE timer
    /\ ev' = Evento("ngAfterViewInit", 0, 0, isBrowser, "")
    /\ UNCHANGED << api, isBrowser, importacao, L, mapa, mapaCarregado, carregando,
                    totalBuscas, ultimoErro, marcadoresOnibus, camadas, vista,
                    reqLinhas, reqPosicoes, fecho, hist >>

\* the continuation of ngOnInit after await import('leaflet')
ImportaLeaflet(ok) ==
    /\ ciclo = "afterViewInit"
    /\ importacao = "pendente"
    /\ importacao' = IF ok THEN "ok" ELSE "falhou"
    /\ L' = IF ok THEN TRUE ELSE L
    /\ ev' = Evento("import", 0, 0, ok, "")
    /\ UNCHANGED << api, isBrowser, ciclo, timer, mapa, mapaCarregado, carregando,
                    totalBuscas, ultimoErro, marcadoresOnibus, camadas, vista,
                    reqLinhas, reqPosicoes, fecho, hist >>

\* the setTimeout callback of ngAfterViewInit
TimerCriarMapa(resultado) ==
    /\ timer = "armado"
    /\ timer' = "disparado"
    /\ Aplica(criarMapa(Comp, resultado))
    /\ ev' = Evento("criarMapa", 0, 0, L /\ resultado = "ok", "")
    /\ UNCHANGED << api, isBrowser, ciclo, importacao, reqLinhas, reqPosicoes, fecho, hist >>

\* buscarLinhas that counts the search before it validates it
BuscarLinhasContaRejeitadas(termo) ==
    /\ ciclo = "afterViewInit"
    /\ totalBuscas < MaxBuscas
    /\ IF validacao(Comp, termo) # ""
       THEN /\ totalBuscas' = totalBuscas + 1
            /\ ev' = [Evento("buscarLinhas", 0, 0, FALSE, validacao(Comp, termo))
                        EXCEPT !.termo = trim(termo)]
            /\ UNCHANGED << L, mapa, mapaCarregado, carregando,
                            ultimoErro, marcadoresOnibus, camadas, vista,
                            reqLinhas, hist >>
       ELSE LET c2 == limparMarcadores([Comp EXCEPT !.carregando = TRUE,
                                                    !.ultimoErro = "",
                                                    !.totalBuscas = @ + 1])
                s == c2.totalBuscas
            IN /\ Aplica(c2)
               /\ reqLinhas' = reqLinhas \cup {s}
               /\ hist' = [MarcaSobrepostas(hist) EXCEPT ![s] =
                             [@ EXCEPT !.fase = "buscando",
                                       !.removidos = Cardinality(camadas \ c2.camadas),
                                       !.sobreposta = \E t \in Buscas : Ativa(t)]]
               /\ ev' = [Evento("buscarLinhas", s, 0, TRUE, "")
                           EXCEPT !.termo = trim(termo)]
    /\ UNCHANGED << api, isBrowser, ciclo, importacao, timer, reqPosicoes, fecho >>

\* the user clicks the search button with termo typed in
BuscarLinhas(termo) ==
    /\ ciclo = "afterViewInit"
    /\ IF validacao(Comp, termo) # ""
       THEN /\ ev' = [Evento("buscarLinhas", 0, 0, FALSE, validacao(Comp, termo))
                        EXCEPT !.termo = trim(termo)]
            /\ UNCHANGED << L, mapa, mapaCarregado, carregando, totalBuscas,
                            ultimoErro, marcadoresOnibus, camadas, vista,
                            reqLinhas, hist >>
       ELSE /\ totalBuscas < MaxBuscas
            /\ LET c1 == [Comp EXCEPT !.carregando = TRUE, !.ultimoErro = "",
                                      !.totalBuscas = @ + 1]
                   c2 == limparMarcadores(c1)
                   s == c2.totalBuscas
               IN /\ Aplica(c2)
                  /\ reqLinhas' = reqLinhas \cup {s}
                  /\ hist' = [MarcaSobrepostas(hist) EXCEPT ![s] =
                                [@ EXCEPT !.fase = "buscando",
                                          !.removidos = Cardinality(camadas \ c2.camadas),
                                          !.sobreposta = \E t \in Buscas : Ativa(t)]]
                  /\ ev' = [Evento("buscarLinhas", s, 0, TRUE, "")
                              EXCEPT !.termo = trim(termo)]
    /\ UNCHANGED << api, isBrowser, ciclo, importacao, timer, reqPosicoes, fecho >>

\* the user clicks the remove-markers button
RemoverMarcadores ==
    /\ ciclo = "afterViewInit"
    /\ Aplica(removerMarcadores(Comp))
    /\ hist' = MarcaSobrepostas(hist)
    /\ ev' = Evento("removerMarcadores", 0, 0, TRUE, "")
    /\ UNCHANGED << api, isBrowser, ciclo, importacao, timer, reqLinhas, reqPosicoes,
                    fecho >>

\* the line-search request of search s settles with http
LinhasResponde(s, http) ==
    /\ s \in reqLinhas
    /\ reqLinhas' = reqLinhas \ {s}
    /\ LET em == Svc_buscarLinhas(http)
           c1 == [Comp EXCEPT !.carregando = FALSE]
       IN IF em.kind = "next"
          THEN LET r == processarLinhas(c1, em.value, s)
               IN /\ Despachadas + Cardinality(r.pedidos) <= MaxPedidos
                  /\ Aplica(r.c)
                  /\ reqPosicoes' = reqPosicoes \cup r.pedidos
                  /\ fecho' = [fecho EXCEPT ![s] = r.fecho]
                  /\ hist' = [hist EXCEPT ![s] =
                                [@ EXCEPT !.fase = r.fase,
                                          !.falhaLinhas = ~http.ok,
                                          !.nLinhas = Len(em.value.itens),
                                          !.comCodigo = Cardinality(
                                              { i \in 1..Len(em.value.itens) :
                                                  codigoLinhaDe(em.value.itens[i]) # 0 }),
                                          !.despachadas = Cardinality(r.pedidos)]]
                  /\ ev' = Evento("linhas", s, 0, http.ok, r.c.alerta)
          ELSE LET c2 == mostrarErro(c1, em.status)
               IN /\ Aplica(c2)
                  /\ hist' = [hist EXCEPT ![s] =
                                [@ EXCEPT !.fase = "erro", !.falhaLinhas = ~http.ok,
                                          !.errosCb = @ + 1]]
                  /\ ev' = Evento("linhas", s, 0, http.ok, c2.alerta)
                  /\ UNCHANGED << reqPosicoes, fecho >>
    /\ UNCHANGED << api, isBrowser, ciclo, importacao, timer >>

\* the position request req settles with http
PosicoesResponde(req, http) ==
    /\ req \in reqPosicoes
    /\ reqPosicoes' = reqPosicoes \ {req}
    /\ LET em == Svc_buscarPosicoes(http)
           s == req.busca
           r == IF em.kind = "next"
                THEN posicoesNext(Comp, fecho[s], em.value, req)
                ELSE posicoesError(Comp, fecho[s])
       IN /\ Aplica(r.c)
          /\ fecho' = [fecho EXCEPT ![s] = r.f]
          /\ hist' = [hist EXCEPT ![s] =
                        [@ EXCEPT !.resolvidas = @ + 1,
                                  !.falhas = @ + (IF http.ok THEN 0 ELSE 1),
                                  !.veiculos = @ + (IF http.ok THEN Len(http.body.vs) ELSE 0),
                                  !.validos = @ + (IF http.ok THEN Validos(http.body.vs) ELSE 0),
                                  !.adicionados = @ + Len(r.c.marcadoresOnibus)
                                                    - Len(marcadoresOnibus),
                                  !.resumos = @ \o r.resumos,
                                  !.errosCb = @ + (IF em.kind = "next" THEN 0 ELSE 1)]]
          /\ ev' = Evento("posicoes", s, req.linha, http.ok, r.c.alerta)
    /\ UNCHANGED << api, isBrowser, ciclo, importacao, timer, reqLinhas >>

\* ------------------------------------------------- direct calls of the API client
OpsSimples == {"login", "buscarLinhas", "buscarPosicoes", "verificarStatus"}

OpsCompostas == {"buscarTodasPosicoes", "buscarPosicoesInteligente"}

\* the request http.get sends when the observable of op is subscribed to
pedidoDe(op) ==
    IF op = "login" THEN [rota |-> "/login", codigo |-> 0]
    ELSE IF op = "verificarStatus" THEN [rota |-> "/status", codigo |-> 0]
    ELSE IF op = "buscarPosicoes" THEN [rota |-> "/Posicao/Linha", codigo |-> 22]
    ELSE [rota |-> "/linhas", codigo |-> 0]

compVars ==
    << isBrowser, ciclo, importacao, timer, L, mapa, mapaCarregado, carregando,
       totalBuscas, ultimoErro, marcadoresOnibus, camadas, vista, reqLinhas,
       reqPosicoes, fecho, hist, ev >>

\* a caller subscribes to the observable of op
ApiChama(op) ==
    /\ api.fase = "ocioso"
    /\ api' = [api EXCEPT !.op = op, !.fase = "http", !.pedidos = << pedidoDe(op) >>]
    /\ UNCHANGED compVars

\* what the request sent last answered with
ApiRecebe(a, http) ==
    [a EXCEPT !.respostas = Append(@, http.ok), !.corpos = Append(@, http.body)]

\* the observable emits (or signals its error) and ends
ApiFim(a, em) ==
    [a EXCEPT !.fase = "fim",
              !.emitidos = IF em.kind = "next" THEN Append(@, em) ELSE @,
              !.erro = (em.kind = "error")]

\* the /login request settles
ApiRespondeLogin(http) ==
    /\ api.fase = "http"
    /\ api.op = "login"
    /\ api' = ApiFim(ApiRecebe(api, http), Svc_login(http))
    /\ UNCHANGED compVars

\* the /status request settles
ApiRespondeStatus(http) ==
    /\ api.fase = "http"
    /\ api.op = "verificarStatus"
    /\ api' = ApiFim(ApiRecebe(api, http), Svc_verificarStatus(http))
    /\ UNCHANGED compVars

\* the /linhas request of a direct call settles
ApiRespondeLinhas(http) ==
    /\ api.fase = "http"
    /\ api.pedidos[Len(api.pedidos)].rota = "/linhas"
    /\ LET em == Svc_buscarLinhas(http)
           a == [ApiRecebe(api, http) EXCEPT
                   !.linhas = IF http.ok /\ http.body.tipo = "array"
                              THEN http.body.itens ELSE <<>>]
       IN \/ api.op = "buscarLinhas" /\ api' = ApiFim(a, em)
          \/ /\ api.op = "buscarTodasPosicoes"
             /\ api' = ApiFim(a, Svc_buscarTodasPosicoes(em))
          \/ /\ api.op = "buscarPosicoesInteligente"
             /\ LET r == Svc_buscarPosicoesInteligente(em)
                IN IF r.kind = "pedido"
                   THEN api' = [a EXCEPT
                                  !.pedidos = Append(@, [rota |-> "/Posicao/Linha",
                                                         codigo |-> r.codigo]),
                                  !.linha = r.linha]
                   ELSE api' = [a EXCEPT !.fase = "fim", !.erro = TRUE,
                                         !.linha = r.linha]
    /\ UNCHANGED compVars

\* the /Posicao/Linha request of a direct call settles
ApiRespondePosicoes(http) ==
    /\ api.fase = "http"
    /\ api.pedidos[Len(api.pedidos)].rota = "/Posicao/Linha"
    /\ LET em == Svc_buscarPosicoes(http)
       IN \/ api.op = "buscarPosicoes" /\ api' = ApiFim(ApiRecebe(api, http), em)
          \/ /\ api.op = "buscarPosicoesInteligente"
             /\ api' = ApiFim(ApiRecebe(api, http), Svc_inteligenteMap(api.linha, em))
    /\ UNCHANGED compVars

NextApi ==
    \/ \E op \in OpsSimples \cup OpsCompostas : ApiChama(op)
    \/ \E http \in HttpLogin : ApiRespondeLogin(http)
    \/ \E http \in HttpStatus : ApiRespondeStatus(http)
    \/ \E http \in HttpLinhasDe(LinhaSetApi, MaxLinhasApi) : ApiRespondeLinhas(http)
    \/ \E http \in HttpPosicoes : ApiRespondePosicoes(http)

SpecApi == Init /\ [][NextApi]_vars

Next ==
    \/ NgOnInit
    \/ NgAfterViewInit
    \/ \E ok \in BOOLEAN : ImportaLeaflet(ok)
    \/ \E resultado \in {"ok", "falhaMap", "falhaTile"} : TimerCriarMapa(resultado)
    \/ \E termo \in Termos : BuscarLinhas(termo)
    \/ RemoverMarcadores
    \/ \E s \in Buscas, http \in HttpLinhas : LinhasResponde(s, http)
    \/ \E req \in reqPosicoes, http \in HttpPosicoes : PosicoesResponde(req, http)

Spec == Init /\ [][Next]_vars

\* ------------------------------------------------- properties
\* C1: for every accepted search whose line search returned at least one
\* line, the completion summary is invoked at most once, only after every
\* position request the search dispatched has settled, and it has been
\* invoked once they all have settled.
C1_ResumoUmaVez ==
    \A s \in Buscas :
        hist[s].fase = "despachada" =>
            /\ Len(hist[s].resumos) <= 1
            /\ Len(hist[s].resumos) = 1 => hist[s].resolvidas = hist[s].despachadas
            /\ hist[s].resolvidas = hist[s].despachadas => Len(hist[s].resumos) = 1

\* C2: no position response is cancelled or discarded as stale: every request
\* dispatched by a search is in flight or was delivered to its callback,
\* every delivered response was counted by the search it belongs to, and
\* every vehicle with numeric coordinates it carried became a marker,
\* whether or not a later search had been accepted meanwhile.
C2_NadaDescartado ==
    \A s \in Buscas :
        /\ hist[s].despachadas = hist[s].resolvidas + EmVoo(s)
        /\ fecho[s].linhasProcessadas = hist[s].resolvidas
        /\ hist[s].adicionados = hist[s].validos

\* C2 witness: search 2 was accepted while position requests of search 1 were
\* in flight (its clear removed a marker search 1 had already added), and the
\* list now holds a marker made by a late response of search 1 next to one of
\* search 2.
C2_MarcadorDeBuscaSuperada ==
    /\ totalBuscas = 2
    /\ hist[2].removidos > 0
    /\ \E i, j \in 1..Len(marcadoresOnibus) :
           marcadoresOnibus[i].busca = 1 /\ marcadoresOnibus[j].busca = 2

\* C3: in a search one of whose position fetches failed, the failure was
\* counted as completed and added no marker, the other responses added
\* theirs, and the completion summary was reported once every dispatched
\* request had settled.
C3_FalhaNaoImpede ==
    \A s \in Buscas :
        hist[s].falhas > 0 =>
            /\ fecho[s].linhasProcessadas = hist[s].resolvidas
            /\ hist[s].adicionados = hist[s].validos
            /\ hist[s].resolvidas = hist[s].despachadas => Len(hist[s].resumos) = 1

\* C4 as stated: a search whose line search yields no line removes no
\* marker, adds none, dispatches no position request and refits nothing.
C4_NenhumaMutacao ==
    \A s \in Buscas :
        hist[s].fase = "semLinhas" =>
            /\ hist[s].removidos = 0
            /\ hist[s].adicionados = 0
            /\ hist[s].despachadas = 0
            /\ hist[s].resumos = <<>>

\* C4 amended: the only map mutation of a search whose line search yields no
\* line is the removal of the earlier markers when the search is accepted:
\* accepting it adds no marker, refits nothing and dispatches nothing, its
\* line response leaves the marker list, the overlay set, the viewport and
\* the requests in flight as they are, and it never adds a marker,
\* dispatches a position request or reports a summary.
C4_SoALimpezaInicial ==
    /\ [](\A s \in Buscas :
            hist[s].fase = "semLinhas" =>
                /\ hist[s].adicionados = 0
                /\ hist[s].despachadas = 0
                /\ EmVoo(s) = 0
                /\ hist[s].resumos = <<>>)
    /\ [][\A s \in Buscas :
            (s \in reqLinhas /\ s \notin reqLinhas' /\ hist'[s].fase = "semLinhas") =>
                (/\ marcadoresOnibus' = marcadoresOnibus
                 /\ camadas' = camadas
                 /\ vista' = vista
                 /\ reqPosicoes' = reqPosicoes)]_vars
    /\ [][(totalBuscas' = totalBuscas + 1) =>
            (/\ camadas' \subseteq camadas
             /\ vista' = vista
             /\ reqPosicoes' = reqPosicoes)]_vars

\* C4 witness: a search that found no line, accepted with markers on the map.
C4_BuscaVaziaComMarcadores ==
    \E s \in Buscas : hist[s].fase = "semLinhas" /\ hist[s].removidos > 0

\* C5: the step that accepts a search, and the step of removerMarcadores,
\* end with an empty marker list and no marker on the map.
C5_LimpezaEsvazia ==
    [][(totalBuscas' = totalBuscas + 1 \/ ev'.op = "removerMarcadores") =>
           (marcadoresOnibus' = <<>> /\ camadas' = {})]_vars

\* C5 witness: a search was just accepted, its clear took markers of an
\* earlier response off the map, and nothing is left.
C5_LimpouMarcadores ==
    /\ ev.op = "buscarLinhas"
    /\ ev.ok
    /\ hist[ev.busca].removidos > 0
    /\ marcadoresOnibus = <<>>
    /\ camadas = {}

\* C6: when the HTTP request of login, buscarLinhas, buscarPosicoes or
\* verificarStatus fails, the observable emits exactly one value, the
\* default of the operation, signals no error, and the call has sent one
\* request only.
C6_FalhaViraPadrao ==
    (api.fase = "fim" /\ api.op \in OpsSimples) =>
        /\ Len(api.pedidos) = 1
        /\ Len(api.respostas) = 1
        /\ ~api.erro
        /\ Len(api.emitidos) = 1
        /\ ~api.respostas[1] =>
              IF api.op = "login"
              THEN api.emitidos[1].value = FALSE
              ELSE IF api.op = "buscarLinhas"
              THEN api.emitidos[1].value = [tipo |-> "array", itens |-> <<>>]
              ELSE IF api.op = "buscarPosicoes"
              THEN api.emitidos[1].value = [hr |-> "", vsArray |-> TRUE, vs |-> <<>>]
              ELSE api.emitidos[1].value = [autenticado |-> FALSE, erro |-> TRUE]

\* C6 witness: a direct buscarPosicoes call whose request failed has ended.
C6_ChamadaFalhou ==
    api.fase = "fim" /\ api.op = "buscarPosicoes" /\ api.respostas = << FALSE >>

\* C7: no error callback of the view controller is ever invoked, ultimoErro
\* is empty once a search was accepted, and a failed line search ends as a
\* search without lines does: nothing dispatched, the no-line alert shown.
C7_SemCaminhoDeErro ==
    /\ \A s \in Buscas : hist[s].errosCb = 0
    /\ totalBuscas > 0 => ultimoErro = ""
    /\ \A s \in Buscas :
          hist[s].falhaLinhas =>
              /\ hist[s].fase = "semLinhas"
              /\ hist[s].nLinhas = 0
              /\ hist[s].despachadas = 0
    /\ (ev.op = "linhas" /\ ~ev.ok) => (ev.alerta = "nenhumaLinha" /\ ~carregando)

\* C7 witness: the line search of a search failed, and a position fetch of
\* another failed.
C7_FalhasEntregues ==
    \E s, t \in Buscas : hist[s].falhaLinhas /\ hist[t].falhas > 0

\* C8 as stated: a search whose line search returned n >= 1 lines dispatched
\* n position requests.
C8_UmPedidoPorLinha ==
    \A s \in Buscas :
        hist[s].fase = "despachada" => hist[s].despachadas = hist[s].nLinhas

\* C8 amended: a search whose line search returned n >= 1 lines dispatched
\* exactly one position request for each returned line that carries a code,
\* all of them in the step that processed the line response: each is in
\* flight or settled, and none is added later.
C8_UmPedidoPorLinhaComCodigo ==
    \A s \in Buscas :
        /\ hist[s].fase = "despachada" => hist[s].despachadas = hist[s].comCodigo
        /\ hist[s].fase # "despachada" => hist[s].despachadas = 0
        /\ hist[s].resolvidas + EmVoo(s) = hist[s].despachadas
        /\ \A r1, r2 \in reqPosicoes :
              (r1.busca = r2.busca /\ r1.linha = r2.linha) => r1 = r2

\* C8 witness: three lines returned, two of them with a code, two requests
\* dispatched and one already answered.
C8_LinhaSemCodigoPulada ==
    \E s \in Buscas :
        /\ hist[s].nLinhas = 3
        /\ hist[s].despachadas = 2
        /\ hist[s].resolvidas = 1

\* C9: a search triggered with a blank term, or while the map does not
\* exist, is rejected and changes nothing.
C9_RejeitadaSemEfeito ==
    [][(ev'.op = "buscarLinhas" /\ (ev'.termo = <<>> \/ ~mapa)) =>
           (/\ ~ev'.ok
            /\ UNCHANGED << carregando, totalBuscas, ultimoErro, marcadoresOnibus,
                            camadas, vista, reqLinhas, reqPosicoes, mapa,
                            mapaCarregado, fecho, hist >>)]_vars

\* C9 witness: a search with a blank term was just rejected while markers
\* were on the map and a position request was in flight.
C9_RejeitadaEmAndamento ==
    /\ ev.op = "buscarLinhas"
    /\ ~ev.ok
    /\ ev.alerta = "digite"
    /\ marcadoresOnibus # <<>>
    /\ reqPosicoes # {}

\* C10: buscarTodasPosicoes emits one array with one entry per matched line,
\* each entry the line's data with its hr and vs, having sent one position
\* request for every matched line that carries a code.
C10_EntradasSaoDados ==
    (api.op = "buscarTodasPosicoes" /\ api.fase = "fim") =>
        /\ ~api.erro
        /\ Len(api.emitidos) = 1
        /\ Len(api.emitidos[1].value) = Len(api.linhas)
        /\ \A i \in 1..Len(api.emitidos[1].value) :
              /\ api.emitidos[1].value[i].tipo = "dados"
              /\ api.emitidos[1].value[i].linha = api.linhas[i]
        /\ Cardinality({ k \in 1..Len(api.pedidos) :
                           api.pedidos[k].rota = "/Posicao/Linha" })
             = Cardinality({ i \in 1..Len(api.linhas) :
                               codigoLinhaDe(api.linhas[i]) # 0 })

\* C11: buscarPosicoesInteligente signals an error, having sent no position
\* request and emitted nothing, exactly when its line search failed or
\* returned no line or a first line without a code; otherwise it sends one
\* position request, for the code of the first line, and emits exactly one
\* value {linha, posicoes}: the first line, with the body of the position
\* response, or the default {hr: '', vs: []} when that request failed.
C11_PrimeiraLinhaOuErro ==
    (api.op = "buscarPosicoesInteligente" /\ api.fase = "fim") =>
        LET semLinha == \/ ~api.respostas[1]
                        \/ api.linhas = <<>>
                        \/ codigoLinhaDe(api.linhas[1]) = 0
        IN /\ api.erro <=> semLinha
           /\ api.erro =>
                 /\ api.emitidos = <<>>
                 /\ Len(api.pedidos) = 1
           /\ ~api.erro =>
                 /\ Len(api.pedidos) = 2
                 /\ api.pedidos[2] = [rota |-> "/Posicao/Linha",
                                      codigo |-> codigoLinhaDe(api.linhas[1])]
                 /\ Len(api.emitidos) = 1
                 /\ api.emitidos[1].kind = "next"
                 /\ api.emitidos[1].value.linha = api.linhas[1]
                 /\ api.emitidos[1].value.posicoes =
                       IF api.respostas[2] THEN api.corpos[2]
                       ELSE [hr |-> "", vsArray |-> TRUE, vs |-> <<>>]

\* C11 witness: the line search returned two different lines, the position
\* request for the first one failed, and the call has ended with a value.
C11_PosicoesFalharam ==
    /\ api.op = "buscarPosicoesInteligente"
    /\ api.fase = "fim"
    /\ Len(api.linhas) = 2
    /\ api.linhas[1] # api.linhas[2]
    /\ api.respostas = << TRUE, FALSE >>
    /\ ~api.erro

\* C12: the map object tested by the search guard exists if and only if
\* mapaCarregado is true, and a search is accepted only while mapaCarregado
\* is true.
C12_MapaSseCarregado ==
    /\ mapa <=> mapaCarregado
    /\ \A s \in Buscas : hist[s].fase # "nova" => mapaCarregado

\* C13: every completion summary that fitted the viewport (its bus total is
\* greater than zero) fitted it to a marker list that was not empty.
C13_AjusteComMarcadores ==
    \A s \in Buscas :
        \A i \in 1..Len(hist[s].resumos) :
            hist[s].resumos[i].totalOnibus > 0 =>
                /\ hist[s].resumos[i].marcadores > 0
                /\ hist[s].resumos[i].ajuste = "ok"

\* C14: the bus total reported by the completion summary of a search that
\* was not overlapped by another search or by a manual clear equals the
\* number of markers in the marker list at that moment.
C14_TotalIgualMarcadores ==
    \A s \in Buscas :
        ~hist[s].sobreposta =>
            \A i \in 1..Len(hist[s].resumos) :
                hist[s].resumos[i].totalOnibus = hist[s].resumos[i].marcadores

\* C15: carregando is true whenever a line-search request of an accepted
\* search has not yet delivered its response.
C15_CarregandoEnquantoBusca ==
    reqLinhas # {} => carregando

\* C16: once the Leaflet import has succeeded and the timer of
\* ngAfterViewInit has fired, in either order, without criarMapa reporting
\* an error, mapaCarregado is true. (No later step creates the map: criarMapa
\* runs from that timer only.)
C16_MapaProntoEmQualquerOrdem ==
    (importacao = "ok" /\ timer = "disparado" /\ totalBuscas = 0 /\ ultimoErro = "")
        => mapaCarregado

\* C17: the markers on the map are exactly the markers held in
\* marcadoresOnibus, each of them once.
C17_MapaIgualLista ==
    /\ camadas = Range(marcadoresOnibus)
    /\ Cardinality(camadas) = Len(marcadoresOnibus)

\* C17 witness: a position response has just added a marker next to another
\* one, after a search whose clear had taken markers off the map.
C17_MarcadoresAposLimpeza ==
    /\ ev.op = "posicoes"
    /\ Len(marcadoresOnibus) >= 2
    /\ \E s \in Buscas : hist[s].removidos > 0

\* C18: in a search that is not overlapped, any two position responses still
\* in flight give the same outcome in either arrival order: the same markers
\* on the map and in the list, the same counters, the same summaries and the
\* same viewport; and when the last response of such a search has arrived,
\* the markers on the map are its vehicles with numeric coordinates, and the
\* summary reports its dispatched lines and the vehicles of all its responses.
C18_OrdemIndiferente ==
    /\ \A r1, r2 \in reqPosicoes :
          (r1 # r2 /\ r1.busca = r2.busca /\ ~hist[r1.busca].sobreposta) =>
              \A h1, h2 \in HttpPosicoes :
                  LET p1 == Svc_buscarPosicoes(h1).value
                      p2 == Svc_buscarPosicoes(h2).value
                      a1 == posicoesNext(Comp, fecho[r1.busca], p1, r1)
                      a2 == posicoesNext(a1.c, a1.f, p2, r2)
                      b1 == posicoesNext(Comp, fecho[r1.busca], p2, r2)
                      b2 == posicoesNext(b1.c, b1.f, p1, r1)
                  IN /\ a2.c.camadas = b2.c.camadas
                     /\ Range(a2.c.marcadoresOnibus) = Range(b2.c.marcadoresOnibus)
                     /\ a2.c.vista = b2.c.vista
                     /\ a2.f = b2.f
                     /\ a1.resumos \o a2.resumos = b1.resumos \o b2.resumos
    /\ \A s \in Buscas :
          (ev.op = "posicoes" /\ ev.busca = s /\ EmVoo(s) = 0 /\ ~hist[s].sobreposta) =>
              /\ Cardinality(camadas) = hist[s].validos
              /\ \A m \in camadas : m.busca = s
              /\ fecho[s].totalOnibus = hist[s].veiculos
              /\ \A i \in 1..Len(hist[s].resumos) :
                    /\ hist[s].resumos[i].linhas = hist[s].despachadas
                    /\ hist[s].resumos[i].totalOnibus = hist[s].veiculos

\* C18 witness: a search that was not overlapped has reported its summary,
\* and the response for its second line arrived before the one for its
\* first line.
C18_RespostasForaDeOrdem ==
    \E s \in Buscas :
        /\ ~hist[s].sobreposta
        /\ EmVoo(s) = 0
        /\ hist[s].resumos # <<>>
        /\ Len(marcadoresOnibus) = 2
        /\ marcadoresOnibus[1].busca = s
        /\ marcadoresOnibus[2].busca = s
        /\ marcadoresOnibus[1].linha > marcadoresOnibus[2].linha

\* C19: totalBuscas is the number of accepted searches, which is the number
\* of line-search requests issued (in flight or answered); it changes only
\* in the step that accepts a search, by one, together with the issue of
\* that search's line-search request, and every accepted search changes it.
C19_ContaAceitas ==
    /\ [](/\ totalBuscas = Cardinality({ s \in Buscas : hist[s].fase # "nova" })
          /\ totalBuscas = Cardinality(reqLinhas)
                + Cardinality({ s \in Buscas : hist[s].fase \notin {"nova", "buscando"} }))
    /\ [][(totalBuscas' # totalBuscas) =>
             (/\ totalBuscas' = totalBuscas + 1
              /\ ev'.op = "buscarLinhas"
              /\ ev'.ok
              /\ totalBuscas' \notin reqLinhas
              /\ reqLinhas' = reqLinhas \cup {totalBuscas'})]_vars
    /\ [][(ev'.op = "buscarLinhas" /\ ev'.ok) => (totalBuscas' = totalBuscas + 1)]_vars

\* C19 witness: two searches were accepted, and a search has just been
\* rejected while a response callback had already run.
C19_DuasAceitasUmaRejeitada ==
    /\ totalBuscas = 2
    /\ ev.op = "buscarLinhas"
    /\ ~ev.ok
    /\ \E s \in Buscas : hist[s].resolvidas > 0

====
